---- MODULE Spec2Model ----
(***************************************************************************)
(* Valuation strategies of src/valuation_abstraction.py and the            *)
(* ValuationContext that dispatches to them.                               *)
(*                                                                         *)
(* Numbers.  The program computes on Python numbers.  The model computes   *)
(* on exact rationals: every /, ** and sum of the source is carried out    *)
(* exactly, so what is stated about a result is stated about the value the *)
(* source's expression denotes, without IEEE-754 rounding.  Rationals are  *)
(* records [num, den] over arbitrary-precision integers (TLC's own         *)
(* integers are 32 bits wide and (1 + rate) ** t leaves that range).       *)
(* The range of a double is not modelled: where CPython would raise        *)
(* OverflowError on a number beyond 1.8e308, the model goes on computing.  *)
(***************************************************************************)
EXTENDS Integers, Sequences, FiniteSets, TLC

----------------------------------------------------------------------------
(* Arbitrary-precision naturals: little-endian sequences of limbs in       *)
(* 0 .. Base-1 without leading zero limbs; <<>> is 0.  They stand for      *)
(* Python's int and for the numerators and denominators of its floats.     *)

Base == 100 * 100

RECURSIVE NatFromInt(_)
NatFromInt(n) ==
    IF n = 0 THEN <<>> ELSE <<n % Base>> \o NatFromInt(n \div Base)

RECURSIVE NatAddC(_, _, _)
NatAddC(a, b, c) ==
    IF a = <<>> /\ b = <<>>
    THEN IF c = 0 THEN <<>> ELSE <<c>>
    ELSE LET x == IF a = <<>> THEN 0 ELSE Head(a)
             y == IF b = <<>> THEN 0 ELSE Head(b)
             s == x + y + c
         IN  <<s % Base>> \o NatAddC(IF a = <<>> THEN <<>> ELSE Tail(a),
                                      IF b = <<>> THEN <<>> ELSE Tail(b),
                                      s \div Base)

NatAdd(a, b) == NatAddC(a, b, 0)

RECURSIVE NatNorm(_)
NatNorm(a) ==
    IF a = <<>> THEN <<>>
    ELSE IF a[Len(a)] = 0 THEN NatNorm(SubSeq(a, 1, Len(a) - 1)) ELSE a

RECURSIVE NatCmpAt(_, _, _)
NatCmpAt(a, b, i) ==
    IF i = 0 THEN 0
    ELSE IF a[i] < b[i] THEN -1
    ELSE IF a[i] > b[i] THEN 1
    ELSE NatCmpAt(a, b, i - 1)

\* -1, 0, 1 as a < b, a = b, a > b
NatCmp(a, b) ==
    IF Len(a) < Len(b) THEN -1
    ELSE IF Len(a) > Len(b) THEN 1
    ELSE NatCmpAt(a, b, Len(a))

RECURSIVE NatSubB(_, _, _)
NatSubB(a, b, br) ==
    IF a = <<>> THEN <<>>
    ELSE LET y == IF b = <<>> THEN 0 ELSE Head(b)
             d == Head(a) - y - br
         IN  <<IF d < 0 THEN d + Base ELSE d>>
               \o NatSubB(Tail(a), IF b = <<>> THEN <<>> ELSE Tail(b),
                          IF d < 0 THEN 1 ELSE 0)

\* a - b for a >= b
NatSub(a, b) == NatNorm(NatSubB(a, b, 0))

RECURSIVE NatMulLimb(_, _, _)
NatMulLimb(a, d, c) ==
    IF a = <<>>
    THEN IF c = 0 THEN <<>> ELSE <<c>>
    ELSE LET p == Head(a) * d + c
         IN  <<p % Base>> \o NatMulLimb(Tail(a), d, p \div Base)

NatShift(a) == IF a = <<>> THEN <<>> ELSE <<0>> \o a

RECURSIVE NatMul(_, _)
NatMul(a, b) ==
    IF a = <<>> \/ b = <<>> THEN <<>>
    ELSE NatAdd(NatNorm(NatMulLimb(a, Head(b), 0)), NatShift(NatMul(a, Tail(b))))

RECURSIVE NatPow(_, _)
NatPow(a, n) == IF n = 0 THEN <<1>> ELSE NatMul(a, NatPow(a, n - 1))

----------------------------------------------------------------------------
(* Signed integers [neg, mag] and rationals [num, den] with den > 0.       *)

ZMake(neg, mag) == [neg |-> neg /\ mag # <<>>, mag |-> mag]

ZFromInt(n) == IF n < 0 THEN ZMake(TRUE, NatFromInt(-n)) ELSE ZMake(FALSE, NatFromInt(n))

ZNeg(x) == ZMake(~x.neg, x.mag)

ZAdd(x, y) ==
    IF x.neg = y.neg THEN ZMake(x.neg, NatAdd(x.mag, y.mag))
    ELSE IF NatCmp(x.mag, y.mag) >= 0 THEN ZMake(x.neg, NatSub(x.mag, y.mag))
    ELSE ZMake(y.neg, NatSub(y.mag, x.mag))

ZMul(x, y) == ZMake(x.neg # y.neg, NatMul(x.mag, y.mag))

\* -1, 0, 1
ZSign(x) == IF x.mag = <<>> THEN 0 ELSE IF x.neg THEN -1 ELSE 1

QMake(num, den) == [num |-> num, den |-> den]

QFromInt(n) == QMake(ZFromInt(n), <<1>>)

\* n / d for integers n and d > 0
QFrac(n, d) == QMake(ZFromInt(n), NatFromInt(d))

QAdd(p, q) ==
    QMake(ZAdd(ZMul(p.num, ZMake(FALSE, q.den)), ZMul(q.num, ZMake(FALSE, p.den))),
          NatMul(p.den, q.den))

QNeg(p) == QMake(ZNeg(p.num), p.den)

QSub(p, q) == QAdd(p, QNeg(q))

QMul(p, q) == QMake(ZMul(p.num, q.num), NatMul(p.den, q.den))

QIsZero(p) == ZSign(p.num) = 0

\* p / q for q # 0
QDiv(p, q) ==
    QMake(ZMake(p.num.neg # q.num.neg, NatMul(p.num.mag, q.den)),
          NatMul(p.den, q.num.mag))

\* p ** n for an integer n (p # 0 when n < 0), as Python's ** on numbers
QPow(p, n) ==
    IF n >= 0
    THEN QMake(ZMake(p.num.neg /\ n % 2 = 1, NatPow(p.num.mag, n)), NatPow(p.den, n))
    ELSE QMake(ZMake(p.num.neg /\ (-n) % 2 = 1, NatPow(p.den, -n)), NatPow(p.num.mag, -n))

QSign(p) == ZSign(p.num)

\* -1, 0, 1 as p < q, p = q, p > q
QCmp(p, q) == QSign(QSub(p, q))

QEq(p, q) == QCmp(p, q) = 0

QAbs(p) == QMake(ZMake(FALSE, p.num.mag), p.den)

----------------------------------------------------------------------------
(* Rates of the yield solver.  low and high start as the integers 0 and 1  *)
(* and only ever are doubled or replaced by (low + high) / 2, so each is a *)
(* dyadic rational m / 2^e: the value the source's binary floating point   *)
(* holds exactly.  Dyadics are kept reduced (m odd or e = 0).              *)

RECURSIVE Pow2(_)
Pow2(n) == IF n = 0 THEN 1 ELSE 2 * Pow2(n - 1)

Dy(m, e) == [m |-> m, e |-> e]

RECURSIVE DyNorm(_)
DyNorm(d) == IF d.e > 0 /\ d.m % 2 = 0 THEN DyNorm(Dy(d.m \div 2, d.e - 1)) ELSE d

DyMax(a, b) == IF a.e >= b.e THEN a.e ELSE b.e

DyAdd(a, b) ==
    LET e == DyMax(a, b)
    IN  DyNorm(Dy(a.m * Pow2(e - a.e) + b.m * Pow2(e - b.e), e))

DySub(a, b) ==
    LET e == DyMax(a, b)
    IN  DyNorm(Dy(a.m * Pow2(e - a.e) - b.m * Pow2(e - b.e), e))

DyHalf(a) == DyNorm(Dy(a.m, a.e + 1))

DyDouble(a) == DyNorm(Dy(2 * a.m, a.e))

DyToQ(a) == QFrac(a.m, Pow2(a.e))

----------------------------------------------------------------------------
(* The state: one ValuationContext, the call of execute_strategy it is     *)
(* serving, and (for YTMValuation.calculate, whose two loops run one       *)
(* iteration per step) the locals of that call.                            *)

VARIABLES
    strategy,      \* ValuationContext.strategy, the bound strategy
    given,         \* the strategy argument ValuationContext.__init__ received
    fundamentals,  \* the dict passed to the call in progress or last made
    passed,        \* the caller's copy of that dict, taken when it made the call
    pc,            \* "idle", "expand", "bisect", "returned", "raised"
    low,           \* YTMValuation.calculate: low
    high,          \* YTMValuation.calculate: high
    doublings,     \* iterations the bracket-expansion loop has run in this call
    iterations,    \* iterations the bisection loop has run in this call
    bracket,       \* [low, high] as the bracket-expansion loop left them
    outcome,       \* what the call gave its caller: a value or an exception
    first          \* the first call this context completed, and its outcome

vars == <<strategy, given, fundamentals, passed, pc, low, high, doublings,
          iterations, bracket, outcome, first>>

Strategies == {"DCF", "Comps", "Precedent", "DDM", "Bond", "YTM"}

NoDict == [k \in {} |-> 0]

NoOutcome == [kind |-> "none"]

Returns(v) == [kind |-> "value", value |-> v]

Raises(e) == [kind |-> e]

NoCall == [made |-> FALSE]

----------------------------------------------------------------------------
(* YTMValuation.calculate                                                  *)

\* 1e-6 is 1 / ToleranceDen
ToleranceDen == 1000000

Tolerance == QFrac(1, ToleranceDen)

\* sum(... for t in range(1, years_to_maturity + 1)), accumulated from 0
\* in ascending t
RECURSIVE CouponSum(_, _, _, _, _)
CouponSum(coupon, onePlus, t, years, acc) ==
    IF t > years THEN acc
    ELSE CouponSum(coupon, onePlus, t + 1, years,
                   QAdd(acc, QDiv(coupon, QPow(onePlus, t))))

\* ytm_function(rate) of a call with fundamentals f; rate is a rational
ytm_function(f, rate) ==
    LET coupon_rate == QFrac(f.coupon_rate[1], f.coupon_rate[2])
        face_value  == QFromInt(f.face_value)
        onePlus     == QAdd(QFromInt(1), rate)
    IN  QSub(QAdd(CouponSum(QMul(coupon_rate, face_value), onePlus, 1,
                            f.years_to_maturity, QFromInt(0)),
                  QDiv(face_value, QPow(onePlus, f.years_to_maturity))),
             QFromInt(f.current_price))

\* ytm_function(rate) > 0
YtmPositive(f, rate) == QSign(ytm_function(f, DyToQ(rate))) > 0

\* high - low > 1e-6
WiderThanTolerance(lo, hi) == QCmp(DyToQ(DySub(hi, lo)), Tolerance) > 0

YtmKeys == {"current_price", "coupon_rate", "face_value", "years_to_maturity"}

\* lines 52-55: the four subscripts, each a KeyError on a missing key
YtmHasKeys(f) == YtmKeys \subseteq DOMAIN f

----------------------------------------------------------------------------
(* DCFValuation, DDMValuation, BondValuation                               *)

\* sum(cf / (1 + discount_rate) ** i for i, cf in enumerate(series, start)):
\* the terms are taken in list order, i counting up from start, and added
\* to an accumulator that begins at 0.  A term whose divisor is 0 raises.
RECURSIVE DiscountedSum(_, _, _, _)
DiscountedSum(series, discount_rate, i, acc) ==
    IF series = <<>> THEN Returns(acc)
    ELSE LET divisor == QPow(QAdd(QFromInt(1), discount_rate), i)
         IN  IF QIsZero(divisor) THEN Raises("ZeroDivisionError")
             ELSE DiscountedSum(Tail(series), discount_rate, i + 1,
                                QAdd(acc, QDiv(QFromInt(Head(series)), divisor)))

RateOf(f) == QFrac(f.discount_rate[1], f.discount_rate[2])

DCFValuation_calculate_start0(f) ==
    IF "cash_flows" \notin DOMAIN f \/ "discount_rate" \notin DOMAIN f
    THEN Raises("KeyError")
    ELSE DiscountedSum(f.cash_flows, RateOf(f), 0, QFromInt(0))

DCFValuation_calculate(f) ==
    IF "cash_flows" \notin DOMAIN f \/ "discount_rate" \notin DOMAIN f
    THEN Raises("KeyError")
    ELSE DiscountedSum(f.cash_flows, RateOf(f), 1, QFromInt(0))

DDMValuation_calculate(f) ==
    IF "dividends" \notin DOMAIN f \/ "discount_rate" \notin DOMAIN f
    THEN Raises("KeyError")
    ELSE DiscountedSum(f.dividends, RateOf(f), 1, QFromInt(0))

BondValuation_calculate(f) ==
    IF "bond_cash_flows" \notin DOMAIN f \/ "discount_rate" \notin DOMAIN f
    THEN Raises("KeyError")
    ELSE DiscountedSum(f.bond_cash_flows, RateOf(f), 1, QFromInt(0))

----------------------------------------------------------------------------
(* CompsValuation, PrecedentTransactionsValuation                          *)

RECURSIVE SeqSum(_)
SeqSum(v) == IF v = <<>> THEN 0 ELSE Head(v) + SeqSum(Tail(v))

\* {k: sum(v) / len(v) for k, v in population.items()}: every key of the
\* population is averaged; an empty v divides by zero
AverageAll(population) ==
    IF \E k \in DOMAIN population : Len(population[k]) = 0
    THEN Raises("ZeroDivisionError")
    ELSE Returns([k \in DOMAIN population |->
                    QFrac(SeqSum(population[k]), Len(population[k]))])

\* the comprehension of line 25 with the keys avg lacks left out
ApplyMultiples_skipping(target, avg) ==
    Returns([k \in DOMAIN target \cap DOMAIN avg |-> QMul(QFromInt(target[k]), avg[k])])

\* {k: target[k] * avg[k] for k in target}: a key avg lacks is a KeyError
ApplyMultiples(target, avg) ==
    IF \E k \in DOMAIN target : k \notin DOMAIN avg
    THEN Raises("KeyError")
    ELSE Returns([k \in DOMAIN target |-> QMul(QFromInt(target[k]), avg[k])])

CompsValuation_calculate(f) ==
    IF "target_metrics" \notin DOMAIN f \/ "peer_metrics" \notin DOMAIN f
    THEN Raises("KeyError")
    ELSE LET avg_peer_metrics == AverageAll(f.peer_metrics)
         IN  IF avg_peer_metrics.kind # "value" THEN avg_peer_metrics
             ELSE ApplyMultiples(f.target_metrics, avg_peer_metrics.value)

PrecedentTransactionsValuation_calculate(f) ==
    IF "target_metrics" \notin DOMAIN f \/ "transactions_metrics" \notin DOMAIN f
    THEN Raises("KeyError")
    ELSE LET avg_transaction_metrics == AverageAll(f.transactions_metrics)
         IN  IF avg_transaction_metrics.kind # "value" THEN avg_transaction_metrics
             ELSE ApplyMultiples(f.target_metrics, avg_transaction_metrics.value)

\* the strategies whose calculate is a single expression evaluation
calculate(s, f) ==
    CASE s = "DCF"       -> DCFValuation_calculate(f)
      [] s = "DDM"       -> DDMValuation_calculate(f)
      [] s = "Bond"      -> BondValuation_calculate(f)
      [] s = "Comps"     -> CompsValuation_calculate(f)
      [] s = "Precedent" -> PrecedentTransactionsValuation_calculate(f)

PcOf(o) == IF o.kind = "value" THEN "returned" ELSE "raised"

----------------------------------------------------------------------------
(* YTMValuation.calculate, one loop iteration per step                     *)

\* the most doublings of high the model follows within one call
MaxDoublings == 3

\* mid = (low + high) / 2
Midpoint_unparenthesised(lo, hi) == DyAdd(lo, DyHalf(hi))

Midpoint(lo, hi) == DyHalf(DyAdd(lo, hi))

\* lines 64-68: one iteration of the bisection loop
NextBracket_swapped(f, lo, hi) ==
    LET mid == Midpoint(lo, hi)
    IN  IF YtmPositive(f, mid) THEN [low |-> lo, high |-> mid]
                               ELSE [low |-> mid, high |-> hi]

NextBracket(f, lo, hi) ==
    LET mid == Midpoint(lo, hi)
    IN  IF YtmPositive(f, mid) THEN [low |-> mid, high |-> hi]
                               ELSE [low |-> lo, high |-> mid]

NoBracket == [low |-> Dy(0, 0), high |-> Dy(0, 0)]

ResetLocals ==
    /\ low' = Dy(0, 0)
    /\ high' = Dy(0, 0)
    /\ doublings' = 0
    /\ iterations' = 0
    /\ bracket' = NoBracket

Ready == pc \in {"idle", "returned", "raised"}

\* execute_strategy that leaves the context bound to a default strategy
execute_strategy_rebinding(f) ==
    /\ Ready
    /\ fundamentals' = f
    /\ passed' = f
    /\ strategy' = "DCF"
    /\ UNCHANGED given
    /\ IF strategy = "YTM"
       THEN IF YtmHasKeys(f)
            THEN /\ pc' = "expand"
                 /\ outcome' = NoOutcome
                 /\ low' = Dy(0, 0)
                 /\ high' = Dy(1, 0)
                 /\ doublings' = 0
                 /\ iterations' = 0
                 /\ bracket' = NoBracket
            ELSE /\ pc' = "raised"
                 /\ outcome' = Raises("KeyError")
                 /\ ResetLocals
       ELSE /\ outcome' = calculate(strategy, f)
            /\ pc' = PcOf(outcome')
            /\ ResetLocals

\* ValuationContext.execute_strategy(f): self.strategy.calculate(f).  For the
\* five single-expression strategies the step is the whole call; for
\* YTMValuation it runs lines 52-60 and leaves the call at its first loop.
execute_strategy(f) ==
    /\ Ready
    /\ fundamentals' = f
    /\ passed' = f
    /\ UNCHANGED <<strategy, given>>
    /\ IF strategy = "YTM"
       THEN IF YtmHasKeys(f)
            THEN /\ pc' = "expand"
                 /\ outcome' = NoOutcome
                 /\ low' = Dy(0, 0)
                 /\ high' = Dy(1, 0)
                 /\ doublings' = 0
                 /\ iterations' = 0
                 /\ bracket' = NoBracket
            ELSE /\ pc' = "raised"
                 /\ outcome' = Raises("KeyError")
                 /\ ResetLocals
       ELSE /\ outcome' = calculate(strategy, f)
            /\ pc' = PcOf(outcome')
            /\ ResetLocals

\* lines 61-62: while ytm_function(high) > 0: low, high = high, high * 2
ExpandStep ==
    /\ pc = "expand"
    /\ YtmPositive(fundamentals, high)
    /\ doublings < MaxDoublings
    /\ low' = high
    /\ high' = DyDouble(high)
    /\ doublings' = doublings + 1
    /\ UNCHANGED <<strategy, given, fundamentals, passed, pc, iterations, bracket,
                   outcome>>

\* line 61 finds ytm_function(high) <= 0: on to the loop of line 63
ExpandExit ==
    /\ pc = "expand"
    /\ ~YtmPositive(fundamentals, high)
    /\ pc' = "bisect"
    /\ bracket' = [low |-> low, high |-> high]
    /\ UNCHANGED <<strategy, given, fundamentals, passed, low, high, doublings,
                   iterations, outcome>>

\* lines 63-68: one iteration of while high - low > 1e-6
BisectStep ==
    /\ pc = "bisect"
    /\ WiderThanTolerance(low, high)
    /\ LET b == NextBracket(fundamentals, low, high)
       IN  low' = b.low /\ high' = b.high
    /\ iterations' = iterations + 1
    /\ UNCHANGED <<strategy, given, fundamentals, passed, pc, doublings, bracket,
                   outcome>>

\* line 63 finds high - low <= 1e-6; line 69: return high
BisectReturn ==
    /\ pc = "bisect"
    /\ ~WiderThanTolerance(low, high)
    /\ pc' = "returned"
    /\ outcome' = Returns(high)
    /\ UNCHANGED <<strategy, given, fundamentals, passed, low, high, doublings,
                   iterations, bracket>>

----------------------------------------------------------------------------
(* The yield solver alone, as ValuationApp.calculate_ytm uses it: a fresh  *)
(* context bound to YTMValuation serves one call.  The bond terms include  *)
(* what the presentation layer can pass: float() and int() accept zero and *)
(* negative numbers.                                                       *)

YtmInputs ==
    [current_price     : {0, 1, 2, 5, 6, 9},
     coupon_rate       : {<<0, 1>>, <<1, 2>>},
     face_value        : {-4, 0, 4},
     years_to_maturity : {-1, 0, 1, 2}]
    \cup
    [current_price     : {500},
     coupon_rate       : {<<1, 2>>},
     face_value        : {400},
     years_to_maturity : {1, 2}]

InitLocals ==
    /\ fundamentals = NoDict
    /\ passed = NoDict
    /\ pc = "idle"
    /\ low = Dy(0, 0)
    /\ high = Dy(0, 0)
    /\ doublings = 0
    /\ iterations = 0
    /\ bracket = NoBracket
    /\ outcome = NoOutcome
    /\ first = NoCall

\* ValuationContext(YTMValuation())
InitYTM ==
    /\ strategy = "YTM"
    /\ given = "YTM"
    /\ InitLocals

YtmCall ==
    /\ pc = "idle"
    /\ \E f \in YtmInputs : execute_strategy(f)
    /\ UNCHANGED first

YtmExpandStep == ExpandStep /\ UNCHANGED first

YtmExpandExit == ExpandExit /\ UNCHANGED first

YtmBisectStep == BisectStep /\ UNCHANGED first

YtmBisectReturn == BisectReturn /\ UNCHANGED first

NextYTM ==
    \/ YtmCall
    \/ YtmExpandStep
    \/ YtmExpandExit
    \/ YtmBisectStep
    \/ YtmBisectReturn

SpecYTM == InitYTM /\ [][NextYTM]_vars

----------------------------------------------------------------------------
(* Properties of YTMValuation.calculate, checked under SpecYTM             *)

InYtmCall == strategy = "YTM" /\ pc \in {"expand", "bisect", "returned"}

\* C1: the bracket-expansion loop performs a bounded number of doublings:
\* a call that has doubled high MaxDoublings times and still finds
\* ytm_function(high) > 0 does not go on looping, it has ended by signalling
\* NoSolutionError.
C1_ExpansionCapped ==
    (InYtmCall /\ doublings >= MaxDoublings /\ YtmPositive(fundamentals, high))
        => (pc = "raised" /\ outcome.kind = "NoSolutionError")

\* C3: bond terms with yearsToMaturity <= 0 or faceValue <= 0 are rejected:
\* the call signals InvalidInputError and is never found in the expansion
\* loop, in the bisection loop or returned with a rate.
C3_InvalidTermsRejected ==
    (/\ strategy = "YTM"
     /\ pc # "idle"
     /\ YtmHasKeys(fundamentals)
     /\ (fundamentals.years_to_maturity <= 0 \/ fundamentals.face_value <= 0))
        => (pc = "raised" /\ outcome.kind = "InvalidInputError")

\* the terms C2 speaks of: faceValue > 0, couponRate > 0, yearsToMaturity >= 1
ProperTerms(f) ==
    /\ f.face_value > 0
    /\ f.coupon_rate[1] > 0
    /\ f.years_to_maturity >= 1

\* |ytm_function(rate)| <= 1e-4
ResidualWithin(f, rate) ==
    QCmp(QAbs(ytm_function(f, DyToQ(rate))), QFrac(1, 100 * 100)) <= 0

\* C2 as claimed: for proper terms, a returned rate r has ytm_function(r)
\* within 1e-4 of 0, whatever the price.
C2_ReturnedRateSolves ==
    (InYtmCall /\ pc = "returned" /\ ProperTerms(fundamentals))
        => (outcome = Returns(high) /\ ResidualWithin(fundamentals, high))

\* ytm_function(0) >= 0: the price does not exceed the undiscounted cash flows
RootIsNonNegative(f) == QSign(ytm_function(f, QFromInt(0))) >= 0

\* C2 (amended): for proper terms whose price does not exceed the
\* undiscounted sum of the cash flows, the returned rate r = high brackets a
\* root from above within the rate tolerance: ytm_function(r) <= 0,
\* ytm_function(low) >= 0 and 0 <= r - low <= 1e-6.
C2_ReturnedRateBracketsRoot ==
    (InYtmCall /\ pc = "returned" /\ ProperTerms(fundamentals)
        /\ RootIsNonNegative(fundamentals))
        => /\ outcome = Returns(high)
           /\ QSign(ytm_function(fundamentals, DyToQ(high))) <= 0
           /\ QSign(ytm_function(fundamentals, DyToQ(low))) >= 0
           /\ DySub(high, low).m >= 0
           /\ ~WiderThanTolerance(low, high)

\* a bracketed root whose residual nevertheless exceeds 1e-4
C2_Witness ==
    /\ InYtmCall /\ pc = "returned" /\ ProperTerms(fundamentals)
    /\ RootIsNonNegative(fundamentals)
    /\ outcome = Returns(high)
    /\ ~ResidualWithin(fundamentals, high)

\* ceil(log2(w / 1e-6)) for a width w >= 1e-6: the least n with w <= 2^n * 1e-6
IterationBound(w) ==
    CHOOSE n \in 0 .. 30 :
        /\ QCmp(DyToQ(w), QMul(QFromInt(Pow2(n)), Tolerance)) <= 0
        /\ \A k \in 0 .. (n - 1) :
               QCmp(DyToQ(w), QMul(QFromInt(Pow2(k)), Tolerance)) > 0

BracketWidth == DySub(bracket.high, bracket.low)

\* after n iterations high - low is the bracket's width divided by 2^n, low <= high,
\* and the loop is left with high - low <= 1e-6 after at most
\* ceil(log2((high0 - low0) / 1e-6)) iterations
BisectionProgress ==
    (strategy = "YTM" /\ pc \in {"bisect", "returned"})
        => /\ DySub(high, low) = DyNorm(Dy(BracketWidth.m, BracketWidth.e + iterations))
           /\ DySub(high, low).m >= 0
           /\ iterations <= IterationBound(BracketWidth)
           /\ pc = "returned" => ~WiderThanTolerance(low, high)

\* an iteration replaces exactly one of low, high by the midpoint
BisectionReplacesOneEnd ==
    (pc = "bisect" /\ pc' = "bisect" /\ iterations' = iterations + 1)
        => \/ low' = Midpoint(low, high) /\ high' = high
           \/ low' = low /\ high' = Midpoint(low, high)

----------------------------------------------------------------------------
(* The present-value strategies alone, as ValuationApp.calculate_dcf,      *)
(* calculate_ddm and calculate_bond use them: a fresh context bound to      *)
(* DCFValuation, DDMValuation or BondValuation serves one call with the     *)
(* dict that strategy reads.                                                *)

\* the longest cash-flow series passed
MaxLen == 2

PVStrategies == {"DCF", "DDM", "Bond"}

CashValues == {-2, 0, 3}

\* discount rates -2, -1, -1/2, 0, 1/2, 1
RateValues == {<<-2, 1>>, <<-1, 1>>, <<-1, 2>>, <<0, 1>>, <<1, 2>>, <<1, 1>>}

SeqsUpTo(S, n) == UNION {[1 .. k -> S] : k \in 0 .. n}

SeriesKey(s) ==
    CASE s = "DCF"  -> "cash_flows"
      [] s = "DDM"  -> "dividends"
      [] s = "Bond" -> "bond_cash_flows"

\* the dict strategy s reads, holding the series and the rate
PVDict(s, series, rate) ==
    [k \in {SeriesKey(s), "discount_rate"} |->
        IF k = "discount_rate" THEN rate ELSE series]

PVInputs(s) ==
    {PVDict(s, series, rate) : series \in SeqsUpTo(CashValues, MaxLen),
                               rate \in RateValues}

\* ValuationContext(DCFValuation()), (DDMValuation()), (BondValuation())
InitPV ==
    /\ strategy \in PVStrategies
    /\ given = strategy
    /\ InitLocals

PVCall ==
    /\ pc = "idle"
    /\ strategy \in PVStrategies
    /\ \E f \in PVInputs(strategy) : execute_strategy(f)
    /\ UNCHANGED first

NextPV == PVCall

SpecPV == InitPV /\ [][NextPV]_vars

\* the series and rate of the call made
SeriesPassed == fundamentals[SeriesKey(strategy)]

RatePassed == RateOf(fundamentals)

\* sum over t = 1 .. n of series[t] / (1 + rate)^t, for rate # -1
RECURSIVE PresentValueUpTo(_, _, _)
PresentValueUpTo(series, rate, n) ==
    IF n = 0 THEN QFromInt(0)
    ELSE QAdd(PresentValueUpTo(series, rate, n - 1),
              QDiv(QFromInt(series[n]), QPow(QAdd(QFromInt(1), rate), n)))

InPVCall == strategy \in PVStrategies /\ pc # "idle"

\* C4: for a non-empty series and a rate other than -1 the bound strategy
\* returns sum over t = 1..N of series[t] / (1 + rate)^t, the period index
\* starting at 1: the plain sum of the series at rate 0, c / (1 + rate) for a
\* single cash flow c; and DCFValuation, DDMValuation and BondValuation return
\* equal results for that series and rate.
C4_PresentValueFormula ==
    (InPVCall /\ SeriesPassed # <<>> /\ ~QEq(RatePassed, QFromInt(-1)))
        => /\ pc = "returned"
           /\ outcome.kind = "value"
           /\ QEq(outcome.value,
                  PresentValueUpTo(SeriesPassed, RatePassed, Len(SeriesPassed)))
           /\ QIsZero(RatePassed)
                 => QEq(outcome.value, QFromInt(SeqSum(SeriesPassed)))
           /\ Len(SeriesPassed) = 1
                 => QEq(outcome.value,
                        QDiv(QFromInt(SeriesPassed[1]), QAdd(QFromInt(1), RatePassed)))
           /\ \A s \in PVStrategies :
                 LET other == calculate(s, PVDict(s, SeriesPassed,
                                                  fundamentals.discount_rate))
                 IN  other.kind = "value" /\ QEq(other.value, outcome.value)

\* a two-period series discounted at a non-zero rate
C4_Witness ==
    /\ InPVCall /\ pc = "returned"
    /\ Len(SeriesPassed) = 2 /\ SeriesPassed[2] # 0
    /\ QSign(RatePassed) > 0

\* C5: an empty cash-flow series never yields a numeric result: the call
\* signals InvalidInputError, whatever the rate.
C5_EmptySeriesRejected ==
    (InPVCall /\ SeriesPassed = <<>>)
        => (pc = "raised" /\ outcome.kind = "InvalidInputError")

----------------------------------------------------------------------------
(* The multiple-based strategies alone, as ValuationApp.calculate_comps    *)
(* and calculate_precedent use them: a fresh context bound to               *)
(* CompsValuation or PrecedentTransactionsValuation serves one call.        *)

\* the most comparable entities a population metric lists
MaxPeers == 2

MultipleStrategies == {"Comps", "Precedent"}

MetricNames == {"EBITDA", "Revenue"}

TargetValues == {3, 10}

PeerValues == {4, 6}

\* the dicts over some of the metric names
DictsInto(V) == UNION {[D -> V] : D \in SUBSET MetricNames}

PopulationKey(s) ==
    CASE s = "Comps"     -> "peer_metrics"
      [] s = "Precedent" -> "transactions_metrics"

MultiplesDict(s, target, population) ==
    [k \in {"target_metrics", PopulationKey(s)} |->
        IF k = "target_metrics" THEN target ELSE population]

MultiplesInputs(s) ==
    {MultiplesDict(s, target, population) :
        target \in DictsInto(TargetValues),
        population \in DictsInto(SeqsUpTo(PeerValues, MaxPeers))}

\* ValuationContext(CompsValuation()), (PrecedentTransactionsValuation())
InitMultiples ==
    /\ strategy \in MultipleStrategies
    /\ given = strategy
    /\ InitLocals

MultiplesCall ==
    /\ pc = "idle"
    /\ strategy \in MultipleStrategies
    /\ \E f \in MultiplesInputs(strategy) : execute_strategy(f)
    /\ UNCHANGED first

NextMultiples == MultiplesCall

SpecMultiples == InitMultiples /\ [][NextMultiples]_vars

InMultiplesCall == strategy \in MultipleStrategies /\ pc # "idle"

TargetPassed == fundamentals.target_metrics

PopulationPassed == fundamentals[PopulationKey(strategy)]

\* every target key is in the population with a non-empty value sequence
TargetCovered ==
    \A k \in DOMAIN TargetPassed :
        k \in DOMAIN PopulationPassed /\ PopulationPassed[k] # <<>>

SomeTargetKeyMissing ==
    \E k \in DOMAIN TargetPassed : k \notin DOMAIN PopulationPassed

SomePopulationEmpty ==
    \E k \in DOMAIN PopulationPassed : PopulationPassed[k] = <<>>

\* the mapping k |-> target[k] * mean(population[k]) over the target's keys
IsImpliedValuation(o) ==
    /\ o.kind = "value"
    /\ DOMAIN o.value = DOMAIN TargetPassed
    /\ \A k \in DOMAIN TargetPassed :
          QEq(QMul(o.value[k], QFromInt(Len(PopulationPassed[k]))),
              QFromInt(TargetPassed[k] * SeqSum(PopulationPassed[k])))

\* C6: whenever every target key is in the population with a non-empty value
\* sequence, the result is a mapping over exactly the target's keys with
\* result[k] = target[k] * mean(population[k]), and CompsValuation and
\* PrecedentTransactionsValuation return the same mapping.
C6_ImpliedValuation ==
    (InMultiplesCall /\ TargetCovered)
        => /\ pc = "returned"
           /\ IsImpliedValuation(outcome)
           /\ \A s \in MultipleStrategies :
                 calculate(s, MultiplesDict(s, TargetPassed, PopulationPassed))
                     = outcome

PopulationOfTarget ==
    [k \in DOMAIN PopulationPassed \cap DOMAIN TargetPassed |-> PopulationPassed[k]]

\* C8: only the target's keys are evaluated: the population's other keys,
\* whatever their value sequences (an empty one included), change neither
\* the mapping returned nor whether the call succeeds, so the call ends as it
\* does on the population without them.
C8_OtherKeysIgnored ==
    InMultiplesCall
        => outcome = calculate(strategy,
                               MultiplesDict(strategy, TargetPassed, PopulationOfTarget))

----------------------------------------------------------------------------
(* ValuationContext with any of the six strategies bound, called           *)
(* repeatedly with dicts of every shape (a dict without the keys the bound *)
(* strategy reads ends the call with a KeyError).  first remembers the     *)
(* first call completed, to compare later calls with.                      *)

\* YTMValuation.calculate(f) as one evaluation, following at most
\* MaxDoublings doublings; "running" when the expansion loop goes further
RECURSIVE BisectAll(_, _, _)
BisectAll(f, lo, hi) ==
    IF WiderThanTolerance(lo, hi)
    THEN LET b == NextBracket(f, lo, hi) IN BisectAll(f, b.low, b.high)
    ELSE Returns(hi)

RECURSIVE ExpandAll(_, _, _, _)
ExpandAll(f, lo, hi, n) ==
    IF YtmPositive(f, hi)
    THEN IF n >= MaxDoublings THEN [kind |-> "running"]
         ELSE ExpandAll(f, hi, DyDouble(hi), n + 1)
    ELSE BisectAll(f, lo, hi)

YTMValuation_calculate(f) ==
    IF ~YtmHasKeys(f) THEN Raises("KeyError")
    ELSE ExpandAll(f, Dy(0, 0), Dy(1, 0), 0)

\* calculate of strategy s on f
StrategyCalculate(s, f) ==
    IF s = "YTM" THEN YTMValuation_calculate(f) ELSE calculate(s, f)

Terms(price, coupon, face, years) ==
    [current_price |-> price, coupon_rate |-> coupon, face_value |-> face,
     years_to_maturity |-> years]

CtxInputs ==
    {PVDict("DCF", <<3>>, <<1, 2>>),
     PVDict("DCF", <<3, -2>>, <<-1, 1>>),
     PVDict("DDM", <<3, 3>>, <<1, 2>>),
     PVDict("Bond", <<>>, <<0, 1>>),
     MultiplesDict("Comps", [k \in {"EBITDA"} |-> 10],
                   [k \in {"EBITDA"} |-> <<4, 6>>]),
     MultiplesDict("Precedent", [k \in MetricNames |-> 10],
                   [k \in {"EBITDA"} |-> <<4>>]),
     Terms(5, <<1, 2>>, 4, 1),
     Terms(1, <<1, 2>>, 4, 1),
     Terms(9, <<1, 2>>, 4, 2),
     Terms(0, <<0, 1>>, 4, 0)}

\* ValuationContext.__init__(strategy): self.strategy = strategy
Init ==
    /\ given \in Strategies
    /\ strategy = given
    /\ InitLocals

\* the caller notes the first call that completes
Record ==
    first' = IF ~first.made /\ pc' \in {"returned", "raised"}
             THEN [made |-> TRUE, fundamentals |-> fundamentals',
                   outcome |-> outcome']
             ELSE first

Execute == (\E f \in CtxInputs : execute_strategy(f)) /\ Record

ExecuteExpandStep == ExpandStep /\ Record

ExecuteExpandExit == ExpandExit /\ Record

ExecuteBisectStep == BisectStep /\ Record

ExecuteBisectReturn == BisectReturn /\ Record

Next ==
    \/ Execute
    \/ ExecuteExpandStep
    \/ ExecuteExpandExit
    \/ ExecuteBisectStep
    \/ ExecuteBisectReturn

Spec == Init /\ [][Next]_vars

Completed == pc \in {"returned", "raised"}

\* C9: the context keeps the strategy it was constructed with, every call
\* returns or signals exactly what that strategy's calculate does on the same
\* fundamentals, the fundamentals passed are not modified, and a call with
\* the fundamentals of an earlier call ends as that call did, whatever was
\* called in between.
C9_ContextDelegates ==
    /\ strategy = given
    /\ fundamentals = passed
    /\ Completed => outcome = StrategyCalculate(given, passed)
    /\ (Completed /\ first.made /\ passed = first.fundamentals)
          => outcome = first.outcome

\* a later call repeats the first call's fundamentals and returns a value
C9_Witness ==
    /\ pc = "returned"
    /\ first.made
    /\ first.fundamentals = passed
    /\ first.outcome.kind = "value"
    /\ given = "YTM"

====
